---- MODULE Spec2Model ----
(***************************************************************************)
(* Verification ledger of the healthcare portal: the hash-chained          *)
(* ledger_transactions table and its row-level-security policies, the two  *)
(* write workflows that anchor a record (savePrediction, saveDraft), the   *)
(* consent operations, and the useVerifyRecord hook that re-computes a     *)
(* hash and drives the consent request / polling flow.                     *)
(*                                                                         *)
(* Encoding of values.  A text produced by JSON.stringify is modelled as   *)
(* the ordered tree it spells out: an object is the sequence of its        *)
(* <<key, value>> pairs in the order JSON.stringify emits them.  A         *)
(* timestamp text carries the format it was printed in ("iso" for          *)
(* Date.toISOString, "pg" for a timestamptz column read back through the   *)
(* REST API), a timestamptz column stores the instant alone.  SHA-256 is   *)
(* assumed collision free: the digest is the tagged argument.  A nullable  *)
(* text is <<>> for null and <<s>> for the text s; a null instant or id    *)
(* is 0.                                                                   *)
(***************************************************************************)
EXTENDS Integers, Sequences, FiniteSets, TLC

\* ------------------------------------------------------------------ bounds
MaxPreds == 1
MaxLedger == 2
\* Latest reading of the clock at which a finalizing click is still explored.
MaxClock == 3
MaxConsentNotifs == 2
MaxRuns == 2

\* ------------------------------------------------------------- population
Patients == {"p1", "p2"}
Doctors == {"d1", "d2"}
NoUser == "none"
Users == Patients \cup Doctors

PredWriters == {"p1"}
NoteWriters == {"d1"}
\* saveDraft has no busy flag: a second click starts a second invocation.
DraftSlots == {1, 2}
DraftCalls == NoteWriters \X DraftSlots

ApptIds == {1, 2}
ApptPatient == [a \in ApptIds |-> IF a = 1 THEN "p1" ELSE "p2"]
ApptDoctor == [a \in ApptIds |-> "d1"]

TxIdSeq == <<"tx_a", "tx_b", "tx_c", "tx_d">>

None == <<>>
Some(s) == <<s>>
NoHash == <<>>
NoRow == <<>>

\* user_roles holds one row per user (unique user_id); has_role reads it.
RoleOf(u) == IF u \in Doctors THEN "doctor" ELSE IF u \in Patients THEN "patient" ELSE "null"
has_role(u, r) == RoleOf(u) = r

\* ------------------------------------------------------------ pure helpers
Max2(a, b) == IF a > b THEN a ELSE b
Min2(a, b) == IF a < b THEN a ELSE b
clamp(n, a, b) == Max2(a, Min2(b, n))

\* Date.prototype.toISOString of the instant t.
ToISOString(t) == <<"iso", t>>
\* Text of a timestamptz column as the REST API returns it.
PgText(t) == <<"pg", t>>
\* A timestamptz column parsing the text it is given.
ParseTs(txt) == txt[2]

JSONStringify(v) == <<"json", v>>
sha256(text) == <<"sha256", text>>

\* Key order of a jsonb object: shorter keys first, then bytewise.
KeyLen(k) == CASE k = "bmi" -> 3 [] k = "age_years" -> 9 [] OTHER -> 0
KeyRank(k) == CASE k = "age_years" -> 1 [] k = "bmi" -> 2 [] OTHER -> 0
JsonbBefore(k1, k2) == KeyLen(k1) < KeyLen(k2) \/ (KeyLen(k1) = KeyLen(k2) /\ KeyRank(k1) < KeyRank(k2))
RECURSIVE JsonbInsert(_, _)
JsonbInsert(sorted, kv) ==
  IF sorted = <<>> THEN <<kv>>
  ELSE IF JsonbBefore(kv[1], Head(sorted)[1]) THEN <<kv>> \o sorted
       ELSE <<Head(sorted)>> \o JsonbInsert(Tail(sorted), kv)
RECURSIVE Jsonb(_)
Jsonb(obj) == IF obj = <<>> THEN <<>> ELSE JsonbInsert(Jsonb(Tail(obj)), Head(obj))

\* ------------------------------------------------------- stableStringify
\* A JavaScript value: <<"num", n>>, <<"nonfinite", name>> for NaN, Infinity
\* and -Infinity, <<"arr", elements>>, or <<"obj", pairs>>
\* with the <<key, value>> pairs of the object's string keys in insertion
\* order.  A text is the sequence of its tokens.
ObjKeys == {"10", "2", "a", "b"}
IsIndex(k) == k \in {"10", "2"}
IndexValue(k) == CASE k = "10" -> 10 [] k = "2" -> 2 [] OTHER -> 0
\* Order of UTF-16 code units, the default of Array.prototype.sort.
StrRank(k) == CASE k = "10" -> 1 [] k = "2" -> 2 [] k = "a" -> 3 [] k = "b" -> 4 [] OTHER -> 0

RECURSIVE InsertByRank(_, _)
InsertByRank(sorted, k) ==
  IF sorted = <<>> THEN <<k>>
  ELSE IF StrRank(k) < StrRank(Head(sorted)) THEN <<k>> \o sorted
       ELSE <<Head(sorted)>> \o InsertByRank(Tail(sorted), k)
RECURSIVE SortKeys(_)
SortKeys(keys) == IF keys = <<>> THEN <<>> ELSE InsertByRank(SortKeys(Tail(keys)), Head(keys))

RECURSIVE InsertByIndex(_, _)
InsertByIndex(sorted, k) ==
  IF sorted = <<>> THEN <<k>>
  ELSE IF IndexValue(k) < IndexValue(Head(sorted)) THEN <<k>> \o sorted
       ELSE <<Head(sorted)>> \o InsertByIndex(Tail(sorted), k)
RECURSIVE SortIndexKeys(_)
SortIndexKeys(keys) == IF keys = <<>> THEN <<>> ELSE InsertByIndex(SortIndexKeys(Tail(keys)), Head(keys))

\* Own keys of an object as Object.keys and JSON.stringify enumerate them:
\* array-index keys in ascending numeric order, then the other keys in
\* insertion order.
OwnKeys(pairs) ==
  LET keys == [i \in 1..Len(pairs) |-> pairs[i][1]]
  IN SortIndexKeys(SelectSeq(keys, IsIndex)) \o SelectSeq(keys, LAMBDA k : ~IsIndex(k))
ValueOf(pairs, k) == pairs[CHOOSE i \in 1..Len(pairs) : pairs[i][1] = k][2]

\* Variant: the value is returned as it is.
sortNothing(value) == value
RECURSIVE sortRecursively(_)
sortRecursively(value) ==
  IF value[1] \in {"num", "nonfinite"} THEN value
  ELSE IF value[1] = "arr"
    THEN <<"arr", [i \in 1..Len(value[2]) |-> sortRecursively(value[2][i])]>>
  ELSE LET keys == SortKeys(OwnKeys(value[2]))
       IN <<"obj", [i \in 1..Len(keys) |-> <<keys[i], sortRecursively(ValueOf(value[2], keys[i]))>>]>>

\* JSON.stringify of a value, as tokens.
RECURSIVE JoinTexts(_)
JoinTexts(texts) ==
  IF texts = <<>> THEN <<>>
  ELSE IF Len(texts) = 1 THEN texts[1]
  ELSE texts[1] \o <<",">> \o JoinTexts(Tail(texts))
RECURSIVE StringifyTree(_)
StringifyTree(value) ==
  IF value[1] = "num" THEN <<ToString(value[2])>>
  ELSE IF value[1] = "nonfinite" THEN <<"null">>
  ELSE IF value[1] = "arr"
    THEN <<"[">> \o JoinTexts([i \in 1..Len(value[2]) |-> StringifyTree(value[2][i])]) \o <<"]">>
  ELSE LET keys == OwnKeys(value[2])
       IN <<"{">>
          \o JoinTexts([i \in 1..Len(keys) |-> <<keys[i], ":">> \o StringifyTree(ValueOf(value[2], keys[i]))])
          \o <<"}">>

stableStringify(value) == StringifyTree(sortRecursively(value))

\* Values stableStringify is applied to: numbers, arrays of up to two
\* elements, objects of up to two keys, nested once.
Nums == {<<"num", 1>>, <<"num", 2>>}
\* Numbers of which some are not finite.
NonFinite == {<<"nonfinite", "NaN">>, <<"nonfinite", "Infinity">>, <<"nonfinite", "-Infinity">>}
SomeNonFinite == {<<"num", 1>>} \cup NonFinite
ShortSeqs(V) == {<<>>} \cup {<<x>> : x \in V} \cup {<<x, y>> : x \in V, y \in V}
ArraysOver(V) == {<<"arr", e>> : e \in ShortSeqs(V)}
KeyPairs == {kk \in ObjKeys \X ObjKeys : kk[1] # kk[2]}
ObjectsOver(V) ==
  {<<"obj", <<>>>>}
  \cup {<<"obj", << <<k, v>> >> >> : k \in ObjKeys, v \in V}
  \cup {<<"obj", << <<kk[1], v>>, <<kk[2], w>> >> >> : kk \in KeyPairs, v \in V, w \in V}
Inner(N) == N \cup ArraysOver(N) \cup ObjectsOver({<<"num", 1>>})
Roots(N) == N \cup ArraysOver(N) \cup ObjectsOver(N) \cup ArraysOver(Inner(N)) \cup ObjectsOver(Inner(N))

\* The same value built in another order: object keys inserted in another
\* order, array elements in another order, at every level.
Perms(n) == {f \in [1..n -> 1..n] : \A i \in 1..n, j \in 1..n : f[i] = f[j] => i = j}
RECURSIVE Reorders(_)
ReordersOfItem(tag, item) ==
  IF tag = "arr" THEN Reorders(item) ELSE {<<item[1], v>> : v \in Reorders(item[2])}
Reorders(t) ==
  IF t[1] \in {"num", "nonfinite"} THEN {t}
  ELSE LET n == Len(t[2])
           All == UNION {ReordersOfItem(t[1], t[2][i]) : i \in 1..n}
       IN UNION { { <<t[1], g>> : g \in {h \in [1..n -> All] :
                                           \A i \in 1..n : h[i] \in ReordersOfItem(t[1], t[2][f[i]])} }
                  : f \in Perms(n) }
CanonInputs(N) ==
  UNION { {[pc |-> "input", a |-> t, b |-> u, outA |-> <<>>, outB |-> <<>>] : u \in Reorders(t)}
          : t \in Roots(N) }

\* ------------------------------------------------- prediction form, scorer
AgeInputs == {60, 130}
BmiInputs == {24}
Forms == { << <<"age_years", a>>, <<"bmi", b>> >> : a \in AgeInputs, b \in BmiInputs }

\* Variant: the form is not validated.
schemaAcceptsAll(form) == form = form
schemaOk(form) ==
  LET age == form[1][2]
      bmi == form[2][2]
  IN age >= 1 /\ age <= 120 /\ bmi >= 10 /\ bmi <= 60

\* computeScore with the fields that are not modelled at their defaults.
\* Penalties are kept in tenths; Math.round rounds half up.
computeScore(input) ==
  LET age == input[1][2]
      bmi == input[2][2]
      agePen == clamp(Max2(0, age - 40) * 5, 0, 150)
      bmiPen == IF bmi > 25 THEN clamp((bmi - 25) * 12, 0, 180) ELSE 0
      tenths == 1000 - agePen - bmiPen
  IN clamp((tenths + 5) \div 10, 0, 100)

scoreToRisk(score) ==
  LET risk == clamp(100 - score, 0, 100)
  IN [risk |-> risk, category |-> IF risk < 25 THEN "Low" ELSE IF risk < 60 THEN "Medium" ELSE "High"]

\* ------------------------------------------------------------------- state
VARIABLES
  predictions,    \* public.predictions, a row's id is its index
  notes,          \* public.appointment_notes, a row's id is its index
  ledger,         \* public.ledger_transactions in insertion order
  consents,       \* public.doctor_patient_consents, status per (patient, doctor)
  apptStatus,     \* public.appointments.status per appointment
  notifications,  \* public.notifications, rows per user and type
  clock,          \* the instant the next timestamp read returns
  anchored,       \* history: per ledger row, the payload row its writer hashed
  wfP,            \* savePrediction of each patient page: position and locals
  tm,             \* telemedicine page of each doctor: active, note, loads in flight
  wfD,            \* saveDraft of each doctor page: position and locals
  vp,             \* verification page: mounted, authLoading, sessionUserId, txId
  hk,             \* useVerifyRecord state: status, tx, pred, note, meta, pollRef
  runs,           \* invocations of run() in flight: position and locals
  rc,             \* requestConsent in flight
  pf,             \* poll callback in flight
  api,            \* a REST client inserting into the ledger: request, response
  consentRows,    \* public.doctor_patient_consents: id and pair of each row, in insertion order
  rpc,            \* calls of request_patient_consent under execution
  canon,          \* stableStringify applied to two trees: arguments and results
  seen,           \* history: the outcome of verify a requester last noted, and the store then
  rejected        \* history: the input the last failed form validation has thrown on

dbVars == <<predictions, notes, ledger, consents, apptStatus, notifications, clock, anchored>>
writeVars == <<wfP, tm, wfD>>
verifyVars == <<vp, hk, runs, rc, pf>>
vars == <<predictions, notes, ledger, consents, apptStatus, notifications, clock, anchored,
          wfP, tm, wfD, vp, hk, runs, rc, pf, api, consentRows, rpc, canon, seen, rejected>>
sideVars == <<consentRows, rpc, canon, seen, rejected>>

\* No validation has failed yet.
NoReject == [op |-> "none", form |-> <<>>, diag |-> "", rec |-> ""]
IdleP == [pc |-> "idle", input |-> <<>>, snap |-> <<>>, predId |-> 0, hash |-> NoHash, prev |-> NoHash, txid |-> "none"]
IdleD == [pc |-> "idle", snap |-> <<>>, appt |-> 0, finalize |-> FALSE, diag |-> None, rec |-> None,
          nowIso |-> 0, noteId |-> 0, hash |-> NoHash, prev |-> NoHash, txid |-> "none"]
IdleCanon == [pc |-> "idle", a |-> <<"num", 0>>, b |-> <<"num", 0>>, outA |-> <<>>, outB |-> <<>>]
IdleApi == [pc |-> "idle", user |-> NoUser, row |-> NoRow, error |-> "none"]
NotifTypes == {"prediction", "consent", "consent_request"}

\* ------------------------------------------------- row-level-security reads
\* Variant: a pending request already opens the patient's rows.
GrantedOrPending(p, d) == p \in Patients /\ d \in Doctors /\ consents[<<p, d>>] \in {"granted", "pending"}
\* exists (select 1 from doctor_patient_consents c where ... c.status = 'granted')
Granted(p, d) == p \in Patients /\ d \in Doctors /\ consents[<<p, d>>] = "granted"

\* Variant: every authenticated user may read every row.
CanReadLedgerAll(uid, row) == uid # NoUser
\* "Ledger: patient read own" / "Ledger: doctors read granted patients"
CanReadLedger(uid, row) ==
  \/ uid = row.patient_id
  \/ has_role(uid, "doctor") /\ Granted(row.patient_id, uid)

\* Variant: every authenticated user may read every prediction.
CanReadPredictionAll(uid, row) == uid # NoUser
\* "Predictions: patient read own" / "Predictions: doctors read granted patients"
CanReadPrediction(uid, row) ==
  \/ uid = row.patient_id
  \/ has_role(uid, "doctor") /\ Granted(row.patient_id, uid)

\* "Appointment notes: doctor read own" / "Appointment notes: patient read finalized"
CanReadNote(uid, row) ==
  \/ uid = row.doctor_id
  \/ uid = row.patient_id /\ row.is_final

\* Rows of the ledger visible to uid, in insertion order.
VisibleLedger(uid) == SelectSeq(ledger, LAMBDA r : CanReadLedger(uid, r))

\* select payload_hash ... eq(patient_id) order(created_at desc) limit 1, as uid.
LastHashFor(uid, patient) ==
  LET rows == SelectSeq(VisibleLedger(uid), LAMBDA r : r.patient_id = patient)
  IN IF rows = <<>> THEN NoHash ELSE rows[Len(rows)].payload_hash

\* ------------------------------------------------- ledger table constraints
\* Variant: tx_id carries no unique index.
TxIdNeverTaken(txid) == txid = "none"
TxIdTaken(txid) == \E i \in 1..Len(ledger) : ledger[i].tx_id = txid
num_nonnulls(a, b) == (IF a # 0 THEN 1 ELSE 0) + (IF b # 0 THEN 1 ELSE 0)
\* Variant: the check constraint is absent.
PayloadUnchecked(row) == num_nonnulls(row.prediction_id, row.note_id) >= 0
ExactlyOnePayload(row) == num_nonnulls(row.prediction_id, row.note_id) = 1
ForeignKeysOk(row) ==
  /\ row.prediction_id = 0 \/ row.prediction_id \in 1..Len(predictions)
  /\ row.note_id = 0 \/ row.note_id \in 1..Len(notes)
  /\ row.appointment_id = 0 \/ row.appointment_id \in ApptIds

\* Outcome of an insert into ledger_transactions by uid: the policy
\* "Ledger: insert by creator", the check constraint, the unique index on
\* tx_id, the foreign keys.
InsertError(uid, row) ==
  IF uid # row.created_by THEN "42501"
  ELSE IF ~ExactlyOnePayload(row) THEN "23514"
  ELSE IF TxIdTaken(row.tx_id) THEN "23505"
  ELSE IF ~ForeignKeysOk(row) THEN "23503"
  ELSE "ok"
LedgerAccepts(uid, row) == InsertError(uid, row) = "ok"
\* Variant: the insert overwrites the table.
LedgerOverwrite(table, row) == <<row>>
\* The table after an accepted insert.
LedgerInsert(table, row) == Append(table, row)

LedgerRow(txid, hash, prev, at, predId, noteId, apptId, patient, author) ==
  [tx_id |-> txid, payload_hash |-> hash, prev_hash |-> prev, created_at |-> at,
   prediction_id |-> predId, note_id |-> noteId, appointment_id |-> apptId,
   patient_id |-> patient, created_by |-> author]

\* ------------------------------------------------------ payload snapshots
\* savePrediction: JSON.stringify({ input, risk: riskInfo, score, at, patient_id })
WritePredictionPayload(input, riskInfo, score, at, patient) ==
  JSONStringify(<< <<"input", input>>,
                   <<"risk", << <<"risk", riskInfo.risk>>, <<"category", riskInfo.category>> >> >>,
                   <<"score", score>>,
                   <<"at", ToISOString(at)>>,
                   <<"patient_id", patient>> >>)

\* The prediction row as the REST API returns it.
PredRead(row) ==
  [created_at |-> PgText(row.created_at), risk_percentage |-> row.risk_percentage,
   risk_category |-> row.risk_category, health_score |-> row.health_score, input |-> row.input]

buildPredictionPayload(tx, pred) ==
  JSONStringify(<< <<"input", pred.input>>,
                   <<"risk", << <<"risk", pred.risk_percentage>>, <<"category", pred.risk_category>> >> >>,
                   <<"score", pred.health_score>>,
                   <<"at", pred.created_at>>,
                   <<"patient_id", tx.patient_id>> >>)

\* The note row as the REST API returns it (finalized_at null stays null).
NoteRead(id, row) ==
  [id |-> id, appointment_id |-> row.appointment_id, doctor_id |-> row.doctor_id,
   patient_id |-> row.patient_id, diagnosis |-> row.diagnosis,
   recommendations |-> row.recommendations,
   finalized_at |-> IF row.finalized_at = 0 THEN None ELSE Some(PgText(row.finalized_at))]

OrEmpty(maybe) == IF maybe = None THEN "" ELSE maybe[1]
OrElse(maybe, fallback) == IF maybe = None THEN fallback ELSE maybe[1]

\* Variant: the snapshot leaves the diagnosis out.
buildNotePayloadNoDiagnosis(note, finalizedAtFallback) ==
  JSONStringify(<< <<"appointment_id", note.appointment_id>>,
                   <<"note_id", note.id>>,
                   <<"patient_id", note.patient_id>>,
                   <<"doctor_id", note.doctor_id>>,
                   <<"recommendations", OrEmpty(note.recommendations)>>,
                   <<"finalized_at", OrElse(note.finalized_at, finalizedAtFallback)>> >>)
buildNotePayload(note, finalizedAtFallback) ==
  JSONStringify(<< <<"appointment_id", note.appointment_id>>,
                   <<"note_id", note.id>>,
                   <<"patient_id", note.patient_id>>,
                   <<"doctor_id", note.doctor_id>>,
                   <<"diagnosis", OrEmpty(note.diagnosis)>>,
                   <<"recommendations", OrEmpty(note.recommendations)>>,
                   <<"finalized_at", OrElse(note.finalized_at, finalizedAtFallback)>> >>)

\* Variant: the client's own text of nowIso is hashed as finalized_at.
WriteNotePayloadClientText(data, nowIso) ==
  buildNotePayload([data EXCEPT !.finalized_at = None], ToISOString(nowIso))
\* saveDraft builds the same object from the row the upsert returned.
WriteNotePayload(data, nowIso) == buildNotePayload(data, ToISOString(nowIso))

AddNotification(n, user, type) == [n EXCEPT ![<<user, type>>] = @ + 1]

\* Workflows that have not yet reached their ledger insert.
InFlightAppends ==
  Cardinality({u \in PredWriters : wfP[u].pc \in {"insPred", "readLast", "insTx"}})
  + Cardinality({c \in DraftCalls : wfD[c].finalize /\ wfD[c].pc \in {"upsert", "readLast", "insTx"}})
LedgerRoom == Len(ledger) + InFlightAppends < MaxLedger

\* ---------------------------------------------------------- savePrediction
\* Click on "Run & Save": schema.parse(form); a rejected form throws before
\* any request is sent.
SP_Start(u, form) ==
  /\ wfP[u].pc = "idle"
  /\ Len(predictions) < MaxPreds
  /\ LedgerRoom
  /\ IF schemaOk(form)
       THEN /\ wfP' = [wfP EXCEPT ![u] = [IdleP EXCEPT !.pc = "insPred", !.input = form]]
            /\ UNCHANGED rejected
       ELSE /\ wfP' = wfP
            /\ rejected' = [NoReject EXCEPT !.op = "savePrediction", !.form = form]
  /\ UNCHANGED <<dbVars, tm, wfD, verifyVars, api, consentRows, rpc, canon, seen>>

\* predictions.insert(...).select("id").single(), then the payload is built
\* from the form values and the client's clock and hashed.
SP_InsertPred(u) ==
  /\ wfP[u].pc = "insPred"
  /\ LET input == wfP[u].input
         score == computeScore(input)
         riskInfo == scoreToRisk(score)
         row == [patient_id |-> u, created_by |-> u, input |-> Jsonb(input),
                 risk_percentage |-> riskInfo.risk, risk_category |-> riskInfo.category,
                 health_score |-> score, created_at |-> clock]
         at == clock + 1
         payload == WritePredictionPayload(input, riskInfo, score, at, u)
     IN /\ predictions' = Append(predictions, row)
        /\ clock' = clock + 2
        /\ wfP' = [wfP EXCEPT ![u] = [@ EXCEPT !.pc = "readLast",
                                               !.predId = Len(predictions) + 1,
                                               !.snap = <<PredRead(row)>>,
                                               !.hash = sha256(payload)]]
  /\ UNCHANGED <<notes, ledger, consents, apptStatus, notifications, anchored, tm, wfD, verifyVars, api, sideVars>>

\* Most recent payload_hash of the patient's chain, then nanoid().
SP_ReadLast(u, txid) ==
  /\ wfP[u].pc = "readLast"
  /\ wfP' = [wfP EXCEPT ![u] = [@ EXCEPT !.pc = "insTx", !.prev = LastHashFor(u, u), !.txid = txid]]
  /\ UNCHANGED <<dbVars, tm, wfD, verifyVars, api, sideVars>>

\* ledger_transactions.insert(...); "if (txErr) throw txErr" ends the workflow.
SP_InsertTx(u) ==
  /\ wfP[u].pc = "insTx"
  /\ LET w == wfP[u]
         row == LedgerRow(w.txid, w.hash, w.prev, clock, w.predId, 0, 0, u, u)
     IN IF LedgerAccepts(u, row)
          THEN /\ ledger' = LedgerInsert(ledger, row)
               /\ anchored' = Append(anchored, w.snap)
               /\ clock' = clock + 1
               /\ wfP' = [wfP EXCEPT ![u] = [@ EXCEPT !.pc = "notify"]]
          ELSE /\ wfP' = [wfP EXCEPT ![u] = IdleP]
               /\ UNCHANGED <<ledger, clock, anchored>>
  /\ UNCHANGED <<predictions, notes, consents, apptStatus, notifications, tm, wfD, verifyVars, api, sideVars>>

\* notifications.insert({ type: "prediction", ... }), then the toast.
SP_Notify(u) ==
  /\ wfP[u].pc = "notify"
  /\ notifications' = AddNotification(notifications, u, "prediction")
  /\ wfP' = [wfP EXCEPT ![u] = IdleP]
  /\ UNCHANGED <<predictions, notes, ledger, consents, apptStatus, clock, anchored, tm, wfD, verifyVars, api, sideVars>>

\* ------------------------------------------------- doctor telemedicine page
DiagInputs == {"", "flu", "long"}
RecInputs == {""}
\* noteSchema: z.string().trim().max(2000) / max(4000)
noteSchemaOk(diag, rec) == diag # "long" /\ rec # "long"
\* parsed.x?.trim() || null
OrNull(s) == IF s = "" THEN None ELSE Some(s)

NoteOfAppt(a) == IF \E i \in 1..Len(notes) : notes[i].appointment_id = a
                   THEN CHOOSE i \in 1..Len(notes) : notes[i].appointment_id = a
                   ELSE 0
NoteState(i) == IF i = 0 THEN "none" ELSE IF notes[i].is_final THEN "final" ELSE "draft"
canEditNote(d) == tm[d].note # "final"

\* setActive(a): the effect on active?.id starts the note load.
SelectAppointment(d, a) ==
  /\ ApptDoctor[a] = d
  /\ tm[d].active # a
  /\ tm' = [tm EXCEPT ![d] = [@ EXCEPT !.active = a, !.loads = @ \cup {a}]]
  /\ UNCHANGED <<dbVars, wfP, wfD, verifyVars, api, sideVars>>

\* The note query of an effect run resolves: setNote(n).
NoteLoaded(d, a) ==
  /\ a \in tm[d].loads
  /\ LET i == NoteOfAppt(a)
         n == IF i # 0 /\ CanReadNote(d, notes[i]) THEN NoteState(i) ELSE "none"
     IN tm' = [tm EXCEPT ![d] = [@ EXCEPT !.note = n, !.loads = @ \ {a}]]
  /\ UNCHANGED <<dbVars, wfP, wfD, verifyVars, api, sideVars>>

\* Click on "Save draft" / "Finalize & anchor" (disabled unless canEditNote):
\* noteSchema.parse, then nowIso.
SD_Start(c, finalize, diag, rec) ==
  /\ wfD[c].pc = "idle"
  /\ \A s \in DraftSlots : s < c[2] => wfD[<<c[1], s>>].pc # "idle"
  /\ tm[c[1]].active # 0
  /\ canEditNote(c[1])
  /\ finalize => LedgerRoom
  /\ IF noteSchemaOk(diag, rec)
       THEN /\ wfD' = [wfD EXCEPT ![c] = [IdleD EXCEPT !.pc = "upsert", !.appt = tm[c[1]].active,
                                                  !.finalize = finalize, !.diag = OrNull(diag),
                                                  !.rec = OrNull(rec),
                                                  !.nowIso = IF finalize THEN clock ELSE 0]]
            /\ clock' = IF finalize THEN clock + 1 ELSE clock
            /\ UNCHANGED rejected
       ELSE /\ UNCHANGED <<wfD, clock>>
            /\ rejected' = [NoReject EXCEPT !.op = "saveDraft", !.diag = diag, !.rec = rec]
  /\ UNCHANGED <<predictions, notes, ledger, consents, apptStatus, notifications, anchored, wfP, tm, verifyVars, api, consentRows, rpc, canon, seen>>

\* appointment_notes.upsert(..., { onConflict: "appointment_id" }).select().single(),
\* setNote(data); a finalized note gets its payload built from data and hashed.
SD_Upsert(c) ==
  /\ wfD[c].pc = "upsert"
  /\ LET w == wfD[c]
         old == NoteOfAppt(w.appt)
         id == IF old = 0 THEN Len(notes) + 1 ELSE old
         row == [appointment_id |-> w.appt, doctor_id |-> c[1], patient_id |-> ApptPatient[w.appt],
                 diagnosis |-> w.diag, recommendations |-> w.rec, is_final |-> w.finalize,
                 finalized_at |-> IF w.finalize THEN ParseTs(ToISOString(w.nowIso)) ELSE 0]
         data == NoteRead(id, row)
     IN /\ notes' = IF old = 0 THEN Append(notes, row) ELSE [notes EXCEPT ![old] = row]
        /\ tm' = [tm EXCEPT ![c[1]] = [@ EXCEPT !.note = IF w.finalize THEN "final" ELSE "draft"]]
        /\ IF w.finalize
             THEN wfD' = [wfD EXCEPT ![c] = [@ EXCEPT !.pc = "readLast", !.noteId = id,
                                                     !.snap = <<data>>,
                                                     !.hash = sha256(WriteNotePayload(data, w.nowIso))]]
             ELSE wfD' = [wfD EXCEPT ![c] = IdleD]
  /\ UNCHANGED <<predictions, ledger, consents, apptStatus, notifications, clock, anchored, wfP, verifyVars, api, sideVars>>

\* Most recent payload_hash of the patient's chain as the doctor may read it,
\* then nanoid().
SD_ReadLast(c, txid) ==
  /\ wfD[c].pc = "readLast"
  /\ wfD' = [wfD EXCEPT ![c] = [@ EXCEPT !.pc = "insTx", !.txid = txid,
                                         !.prev = LastHashFor(c[1], ApptPatient[wfD[c].appt])]]
  /\ UNCHANGED <<dbVars, wfP, tm, verifyVars, api, sideVars>>

\* ledger_transactions.insert(...); "if (txErr) throw txErr" ends the workflow.
SD_InsertTx(c) ==
  /\ wfD[c].pc = "insTx"
  /\ LET w == wfD[c]
         row == LedgerRow(w.txid, w.hash, w.prev, clock, 0, w.noteId, w.appt, ApptPatient[w.appt], c[1])
     IN IF LedgerAccepts(c[1], row)
          THEN /\ ledger' = LedgerInsert(ledger, row)
               /\ anchored' = Append(anchored, w.snap)
               /\ clock' = clock + 1
               /\ wfD' = [wfD EXCEPT ![c] = [@ EXCEPT !.pc = "complete"]]
          ELSE /\ wfD' = [wfD EXCEPT ![c] = IdleD]
               /\ UNCHANGED <<ledger, clock, anchored>>
  /\ UNCHANGED <<predictions, notes, consents, apptStatus, notifications, wfP, tm, verifyVars, api, sideVars>>

\* appointments.update({ status: "completed", ended_at: nowIso }).eq("id", active.id)
SD_Complete(c) ==
  /\ wfD[c].pc = "complete"
  /\ apptStatus' = [apptStatus EXCEPT ![wfD[c].appt] = "completed"]
  /\ wfD' = [wfD EXCEPT ![c] = IdleD]
  /\ UNCHANGED <<predictions, notes, ledger, consents, notifications, clock, anchored, wfP, tm, verifyVars, api, sideVars>>

\* ----------------------------------------------------------- consent page
ConsentStatus(p, d) == consents[<<p, d>>]

\* unique (patient_id, doctor_id): a row for the pair exists.
\* Variant: the table carries no unique constraint.
ConsentPairNeverTaken(p, d) == p = NoUser
ConsentPairTaken(p, d) ==
  \E i \in 1..Len(consentRows) : consentRows[i].patient_id = p /\ consentRows[i].doctor_id = d
ConsentRowId(p, d) ==
  IF \E i \in 1..Len(consentRows) : consentRows[i].patient_id = p /\ consentRows[i].doctor_id = d
    THEN CHOOSE i \in 1..Len(consentRows) :
           /\ consentRows[i].patient_id = p /\ consentRows[i].doctor_id = d
           /\ \A j \in (i + 1)..Len(consentRows) :
                ~(consentRows[j].patient_id = p /\ consentRows[j].doctor_id = d)
    ELSE 0
\* insert into doctor_patient_consents (..., status) values (..., 'pending')
ConsentInsert(rows, p, d) == Append(rows, [id |-> Len(rows) + 1, patient_id |-> p, doctor_id |-> d])

\* PatientConsents.request: the upsert carries no id, so it inserts; the
\* unique (patient_id, doctor_id) constraint rejects a second row.
PatientRequest(p, d) ==
  /\ notifications[<<p, "consent">>] < MaxConsentNotifs
  /\ IF ~ConsentPairTaken(p, d)
       THEN /\ consents' = [consents EXCEPT ![<<p, d>>] = "pending"]
            /\ consentRows' = ConsentInsert(consentRows, p, d)
            /\ notifications' = AddNotification(notifications, p, "consent")
       ELSE UNCHANGED <<consents, consentRows, notifications>>
  /\ UNCHANGED <<predictions, notes, ledger, apptStatus, clock, anchored, writeVars, verifyVars, api, rpc, canon, seen, rejected>>

\* PatientConsents.setStatus(id, "granted" | "revoked") on a listed row;
\* "Grant" is disabled on a granted row.
PatientSetStatus(p, d, status) ==
  /\ notifications[<<p, "consent">>] < MaxConsentNotifs
  /\ ConsentStatus(p, d) # "none"
  /\ status = "granted" => ConsentStatus(p, d) # "granted"
  /\ consents' = [consents EXCEPT ![<<p, d>>] = status]
  /\ notifications' = AddNotification(notifications, p, "consent")
  /\ UNCHANGED <<predictions, notes, ledger, apptStatus, clock, anchored, writeVars, verifyVars, api, sideVars>>

\* request_patient_consent: the select of a row of the pair with status
\* pending or granted, newest first; the id found, 0 for none.
ExistingConsent(uid, patient) ==
  IF ConsentPairTaken(patient, uid) /\ ConsentStatus(patient, uid) \in {"pending", "granted"}
    THEN ConsentRowId(patient, uid) ELSE 0

\* Variant: the pending row is inserted without the notification.
InsertPendingUnnotified(uid, patient) ==
  << [consents EXCEPT ![<<patient, uid>>] = "pending"],
     notifications,
     ConsentInsert(consentRows, patient, uid) >>
\* request_patient_consent: the two inserts (consent row, patient
\* notification) as <<consents, notifications, consentRows>> after them.
InsertPending(uid, patient) ==
  << [consents EXCEPT ![<<patient, uid>>] = "pending"],
     AddNotification(notifications, patient, "consent_request"),
     ConsentInsert(consentRows, patient, uid) >>

\* request_patient_consent(_patient_id) called by uid and executed without
\* another session in between.  The result is the triple
\* <<consents, notifications, consentRows>> after the call; a raised
\* exception (not a doctor, or the unique constraint on a revoked row)
\* changes nothing.
request_patient_consent(uid, patient) ==
  IF ~has_role(uid, "doctor") THEN <<consents, notifications, consentRows>>
  ELSE IF ExistingConsent(uid, patient) # 0 THEN <<consents, notifications, consentRows>>
  ELSE IF ConsentPairTaken(patient, uid) THEN <<consents, notifications, consentRows>>
  ELSE InsertPending(uid, patient)

\* A call of request_patient_consent sent through the REST API, its
\* statements executed one at a time next to those of other sessions.
RpcCalls == {1, 2}
IdleCall == [pc |-> "idle", uid |-> NoUser, patient |-> NoUser, result |-> 0, error |-> "none"]

\* The function starts: auth.uid(), has_role, the select of an existing row.
Rpc_Select(c, uid, patient) ==
  /\ rpc[c].pc \in {"idle", "done"}
  /\ LET call == [IdleCall EXCEPT !.uid = uid, !.patient = patient]
     IN rpc' = [rpc EXCEPT ![c] =
                  IF uid = NoUser THEN [call EXCEPT !.pc = "done", !.error = "P0001"]
                  ELSE IF ~has_role(uid, "doctor") THEN [call EXCEPT !.pc = "done", !.error = "P0001"]
                  ELSE IF ExistingConsent(uid, patient) # 0
                    THEN [call EXCEPT !.pc = "done", !.result = ExistingConsent(uid, patient)]
                  ELSE [call EXCEPT !.pc = "insert"]]
  /\ UNCHANGED <<dbVars, writeVars, verifyVars, api, consentRows, canon, seen, rejected>>

\* The insert of the pending row (rejected by the unique constraint when
\* the pair has a row), the patient's notification, return.
Rpc_Insert(c) ==
  /\ rpc[c].pc = "insert"
  /\ LET uid == rpc[c].uid
         patient == rpc[c].patient
         after == InsertPending(uid, patient)
     IN IF ConsentPairTaken(patient, uid)
          THEN /\ rpc' = [rpc EXCEPT ![c] = [@ EXCEPT !.pc = "done", !.error = "23505"]]
               /\ UNCHANGED <<consents, notifications, consentRows>>
          ELSE /\ consents' = after[1]
               /\ notifications' = after[2]
               /\ consentRows' = after[3]
               /\ rpc' = [rpc EXCEPT ![c] = [@ EXCEPT !.pc = "done", !.result = Len(after[3])]]
  /\ UNCHANGED <<predictions, notes, ledger, apptStatus, clock, anchored, writeVars, verifyVars, api, canon, seen, rejected>>

\* ------------------------------------------------------- useVerifyRecord
TxRead(row) ==
  [tx_id |-> row.tx_id, payload_hash |-> row.payload_hash, prev_hash |-> row.prev_hash,
   created_at |-> PgText(row.created_at), prediction_id |-> row.prediction_id,
   note_id |-> row.note_id, appointment_id |-> row.appointment_id, patient_id |-> row.patient_id]

\* Columns returned by get_ledger_tx_meta_for_doctor.
MetaOf(row) ==
  [tx_id |-> row.tx_id, created_at |-> PgText(row.created_at), patient_id |-> row.patient_id,
   prediction_id |-> row.prediction_id, note_id |-> row.note_id, appointment_id |-> row.appointment_id]

LedgerIndex(txid) == IF TxIdTaken(txid) THEN CHOOSE i \in 1..Len(ledger) : ledger[i].tx_id = txid ELSE 0

\* ledger_transactions ... eq("tx_id", txId).maybeSingle() under RLS as uid.
fetchTxWithRls(uid, txid) ==
  LET i == LedgerIndex(txid)
  IN IF i # 0 /\ CanReadLedger(uid, ledger[i]) THEN <<TxRead(ledger[i])>> ELSE None

get_ledger_tx_meta_for_doctor(uid, txid) ==
  LET i == LedgerIndex(txid)
  IN IF i # 0 /\ has_role(uid, "doctor") THEN <<MetaOf(ledger[i])>> ELSE None

\* doctor_patient_consents ... eq(patient_id).eq(doctor_id).limit(1), read by the doctor.
fetchConsentStatus(patient, doctor) ==
  IF patient \in Patients /\ doctor \in Doctors /\ ConsentStatus(patient, doctor) # "none"
    THEN ConsentStatus(patient, doctor) ELSE "null"

IdleRun == [pc |-> "idle", user |-> NoUser, txId |-> "none", tx |-> None, m |-> None, computed |-> NoHash]
IdleRc == [pc |-> "idle", user |-> NoUser, txId |-> "none", patient |-> "none"]
NoPoll == [on |-> FALSE, user |-> NoUser, txId |-> "none", patient |-> "none"]
FreshHook == [status |-> "loading", tx |-> None, pred |-> None, note |-> None, meta |-> None, pollRef |-> NoPoll]
Unmounted == [mounted |-> FALSE, authLoading |-> FALSE, user |-> NoUser, txId |-> "none"]
role == RoleOf(vp.user)

Quiescent == (\A k \in 1..MaxRuns : runs[k].pc = "idle") /\ rc.pc = "idle" /\ pf.pc = "idle" /\ ~hk.pollRef.on
FreeSlot == IF \E k \in 1..MaxRuns : runs[k].pc = "idle"
              THEN CHOOSE k \in 1..MaxRuns : runs[k].pc = "idle" /\ \A j \in 1..(k - 1) : runs[j].pc # "idle"
              ELSE 0

\* A state update reaches a mounted component only; the pollRef ref is
\* written either way.
SetState(h) == IF vp.mounted THEN h ELSE [hk EXCEPT !.pollRef = h.pollRef]

\* The synchronous head of a run() created for (user, authLoading): resets,
\* stopPolling, the auth checks.
\* Variant: the session user is not looked at.
RunLaunchesAnonymous(user, authLoading) == ~authLoading
RunLaunches(user, authLoading) == ~authLoading /\ user # NoUser
RunHead(h, user, authLoading) ==
  LET base == [h EXCEPT !.tx = None, !.pred = None, !.note = None, !.meta = None, !.pollRef = NoPoll]
  IN IF authLoading THEN base
     ELSE IF user = NoUser THEN [base EXCEPT !.status = "auth_required"]
     ELSE [base EXCEPT !.status = "loading"]

\* run() of the closure (user, txId) is called: a slot for its requests.
CanRun(user) == RunLaunches(user, FALSE) => FreeSlot # 0
RunsAfterCall(user, txId) ==
  IF RunLaunches(user, FALSE)
    THEN [runs EXCEPT ![FreeSlot] = [IdleRun EXCEPT !.pc = "fetchTx", !.user = user, !.txId = txId]]
    ELSE runs

\* The page is opened: useState initial values, then the effect calls run().
Mount(u, t, loading) ==
  /\ ~vp.mounted
  /\ Quiescent
  /\ vp' = [mounted |-> TRUE, authLoading |-> loading, user |-> u, txId |-> t]
  /\ hk' = RunHead(FreshHook, u, loading)
  /\ runs' = IF RunLaunches(u, loading)
               THEN [runs EXCEPT ![1] = [IdleRun EXCEPT !.pc = "fetchTx", !.user = u, !.txId = t]]
               ELSE runs
  /\ UNCHANGED <<dbVars, writeVars, rc, pf, api, sideVars>>

\* AuthProvider finishes loading: run is re-created, the effect cleans up and re-runs.
AuthLoaded ==
  /\ vp.mounted
  /\ vp.authLoading
  /\ CanRun(vp.user)
  /\ vp' = [vp EXCEPT !.authLoading = FALSE]
  /\ hk' = RunHead(hk, vp.user, FALSE)
  /\ runs' = RunsAfterCall(vp.user, vp.txId)
  /\ UNCHANGED <<dbVars, writeVars, rc, pf, api, sideVars>>

\* The page is left: the effect cleanup calls stopPolling(); the component's
\* state is gone.  A run still in flight goes on reading, but it writes no
\* row and its state updates reach no component: it is followed no further.
Leave ==
  /\ vp.mounted
  /\ vp' = Unmounted
  /\ hk' = FreshHook
  /\ runs' = [k \in 1..MaxRuns |-> IdleRun]
  /\ UNCHANGED <<dbVars, writeVars, rc, pf, api, consentRows, rpc, canon, rejected>>
Unmount == Leave /\ UNCHANGED seen

\* "Refresh" (shown to a doctor in consent_required / consent_pending) calls run().
ClickRefresh ==
  /\ vp.mounted
  /\ role = "doctor"
  /\ hk.status \in {"consent_required", "consent_pending"}
  /\ CanRun(vp.user)
  /\ hk' = RunHead(hk, vp.user, vp.authLoading)
  /\ runs' = RunsAfterCall(vp.user, vp.txId)
  /\ UNCHANGED <<dbVars, writeVars, vp, rc, pf, api, consentRows, rpc, canon, rejected>>
Refresh == ClickRefresh /\ UNCHANGED seen

\* The requester notes the status the page shows, with the store as it is,
\* and then leaves the page or clicks "Refresh".
NoSeen == [user |-> NoUser, txId |-> "none", status |-> "none", store |-> <<>>]
Noted ==
  [user |-> vp.user, txId |-> vp.txId, status |-> hk.status,
   store |-> <<ledger, predictions, notes, consents, notifications>>]
ShownDone == vp.mounted /\ ~vp.authLoading /\ \A k \in 1..MaxRuns : runs[k].pc = "idle"
NoteAndLeave == ShownDone /\ Leave /\ seen' = Noted
NoteAndRefresh == ShownDone /\ ClickRefresh /\ seen' = Noted

\* What run() does once txRow is known and the label call, if any, is over.
PayloadPc(tx) == IF tx.prediction_id # 0 THEN "fetchPred" ELSE IF tx.note_id # 0 THEN "fetchNote" ELSE "idle"

\* fetchTxWithRls resolves.
R_FetchTx(k) ==
  /\ runs[k].pc = "fetchTx"
  /\ LET r == runs[k]
         txRow == fetchTxWithRls(r.user, r.txId)
     IN IF txRow = None
          THEN IF RoleOf(r.user) = "doctor"
                 THEN /\ runs' = [runs EXCEPT ![k] = [@ EXCEPT !.pc = "fetchMeta"]]
                      /\ hk' = hk
                 ELSE /\ runs' = [runs EXCEPT ![k] = IdleRun]
                      /\ hk' = SetState([hk EXCEPT !.status = "no_access"])
          ELSE IF RoleOf(r.user) = "doctor"
                 THEN /\ runs' = [runs EXCEPT ![k] = [@ EXCEPT !.pc = "label", !.tx = txRow]]
                      /\ hk' = SetState([hk EXCEPT !.tx = txRow])
                 ELSE IF PayloadPc(txRow[1]) = "idle"
                        THEN /\ runs' = [runs EXCEPT ![k] = IdleRun]
                             /\ hk' = SetState([hk EXCEPT !.tx = txRow, !.status = "invalid"])
                        ELSE /\ runs' = [runs EXCEPT ![k] = [@ EXCEPT !.pc = PayloadPc(txRow[1]), !.tx = txRow]]
                             /\ hk' = SetState([hk EXCEPT !.tx = txRow])
  /\ UNCHANGED <<dbVars, writeVars, vp, rc, pf, api, sideVars>>

\* get_patient_label_for_doctor resolves (the label itself is not modelled).
R_Label(k) ==
  /\ runs[k].pc = "label"
  /\ IF PayloadPc(runs[k].tx[1]) = "idle"
       THEN /\ runs' = [runs EXCEPT ![k] = IdleRun]
            /\ hk' = SetState([hk EXCEPT !.status = "invalid"])
       ELSE /\ runs' = [runs EXCEPT ![k] = [@ EXCEPT !.pc = PayloadPc(runs[k].tx[1])]]
            /\ hk' = hk
  /\ UNCHANGED <<dbVars, writeVars, vp, rc, pf, api, sideVars>>

\* The predictions query resolves; the digest of the rebuilt payload is awaited.
R_FetchPred(k) ==
  /\ runs[k].pc = "fetchPred"
  /\ LET tx == runs[k].tx[1]
         i == tx.prediction_id
     IN IF i \in 1..Len(predictions) /\ CanReadPrediction(runs[k].user, predictions[i])
          THEN LET predRow == PredRead(predictions[i])
               IN /\ hk' = SetState([hk EXCEPT !.pred = <<predRow>>])
                  /\ runs' = [runs EXCEPT ![k] = [@ EXCEPT !.pc = "hash",
                                                       !.computed = sha256(buildPredictionPayload(tx, predRow))]]
          ELSE /\ hk' = SetState([hk EXCEPT !.status = "no_access"])
               /\ runs' = [runs EXCEPT ![k] = IdleRun]
  /\ UNCHANGED <<dbVars, writeVars, vp, rc, pf, api, sideVars>>

\* The appointment_notes query resolves; the digest of the rebuilt payload is awaited.
R_FetchNote(k) ==
  /\ runs[k].pc = "fetchNote"
  /\ LET tx == runs[k].tx[1]
         i == tx.note_id
     IN IF i \in 1..Len(notes) /\ CanReadNote(runs[k].user, notes[i])
          THEN LET noteRow == NoteRead(i, notes[i])
               IN /\ hk' = SetState([hk EXCEPT !.note = <<noteRow>>])
                  /\ runs' = [runs EXCEPT ![k] = [@ EXCEPT !.pc = "hash",
                                                       !.computed = sha256(buildNotePayload(noteRow, tx.created_at))]]
          ELSE /\ hk' = SetState([hk EXCEPT !.status = "no_access"])
               /\ runs' = [runs EXCEPT ![k] = IdleRun]
  /\ UNCHANGED <<dbVars, writeVars, vp, rc, pf, api, sideVars>>

\* sha256 resolves: computed === txRow.payload_hash ? "valid" : "invalid".
VerdictOf(computed, tx) == IF computed = tx.payload_hash THEN "valid" ELSE "invalid"
R_Hash(k) ==
  /\ runs[k].pc = "hash"
  /\ hk' = SetState([hk EXCEPT !.status = VerdictOf(runs[k].computed, runs[k].tx[1])])
  /\ runs' = [runs EXCEPT ![k] = IdleRun]
  /\ UNCHANGED <<dbVars, writeVars, vp, rc, pf, api, sideVars>>

\* Variant: the metadata call also files the consent request.
R_FetchMetaRequesting(k) ==
  /\ runs[k].pc = "fetchMeta"
  /\ LET m == get_ledger_tx_meta_for_doctor(runs[k].user, runs[k].txId)
         after == IF m = None THEN <<consents, notifications, consentRows>>
                  ELSE request_patient_consent(runs[k].user, m[1].patient_id)
     IN /\ consents' = after[1]
        /\ notifications' = after[2]
        /\ consentRows' = after[3]
        /\ IF m = None
             THEN /\ hk' = SetState([hk EXCEPT !.status = "no_access"])
                  /\ runs' = [runs EXCEPT ![k] = IdleRun]
             ELSE /\ hk' = SetState([hk EXCEPT !.meta = m])
                  /\ runs' = [runs EXCEPT ![k] = [@ EXCEPT !.pc = "fetchConsent", !.m = m]]
  /\ UNCHANGED <<predictions, notes, ledger, apptStatus, clock, anchored, writeVars, vp, rc, pf, api, rpc, canon, seen, rejected>>
\* fetchTxMetaForDoctor resolves.
R_FetchMeta(k) ==
  /\ runs[k].pc = "fetchMeta"
  /\ LET m == get_ledger_tx_meta_for_doctor(runs[k].user, runs[k].txId)
     IN IF m = None
          THEN /\ hk' = SetState([hk EXCEPT !.status = "no_access"])
               /\ runs' = [runs EXCEPT ![k] = IdleRun]
          ELSE /\ hk' = SetState([hk EXCEPT !.meta = m])
               /\ runs' = [runs EXCEPT ![k] = [@ EXCEPT !.pc = "fetchConsent", !.m = m]]
  /\ UNCHANGED <<dbVars, writeVars, vp, rc, pf, api, sideVars>>

\* Variant: a pending row is not looked at.
ConsentVerdictRequired(consent) == "consent_required"
\* fetchConsentStatus resolves.
ConsentVerdict(consent) == IF consent = "pending" THEN "consent_pending" ELSE "consent_required"
R_FetchConsent(k) ==
  /\ runs[k].pc = "fetchConsent"
  /\ LET consent == fetchConsentStatus(runs[k].m[1].patient_id, runs[k].user)
     IN hk' = SetState([hk EXCEPT !.status = ConsentVerdict(consent)])
  /\ runs' = [runs EXCEPT ![k] = IdleRun]
  /\ UNCHANGED <<dbVars, writeVars, vp, rc, pf, api, sideVars>>

\* "Request patient consent" (shown in consent_required, disabled without meta).
RC_Start ==
  /\ vp.mounted
  /\ role = "doctor"
  /\ hk.status = "consent_required"
  /\ hk.meta # None
  /\ rc.pc = "idle"
  /\ rc' = [pc |-> "rpc", user |-> vp.user, txId |-> vp.txId, patient |-> hk.meta[1].patient_id]
  /\ UNCHANGED <<dbVars, writeVars, vp, hk, runs, pf, api, sideVars>>

\* The RPC resolves (its error is not looked at): setStatus, stopPolling, setInterval.
RC_Reply ==
  /\ rc.pc = "rpc"
  /\ LET after == request_patient_consent(rc.user, rc.patient)
     IN /\ consents' = after[1]
        /\ notifications' = after[2]
        /\ consentRows' = after[3]
  /\ hk' = SetState([hk EXCEPT !.status = "consent_pending",
                               !.pollRef = [on |-> TRUE, user |-> rc.user, txId |-> rc.txId, patient |-> rc.patient]])
  /\ rc' = IdleRc
  /\ UNCHANGED <<predictions, notes, ledger, apptStatus, clock, anchored, writeVars, vp, runs, pf, api, rpc, canon, seen, rejected>>

\* The 4000 ms interval fires: the callback starts its consent read.
PollTick ==
  /\ hk.pollRef.on
  /\ pf.pc = "idle"
  /\ pf' = [pc |-> "fetch", user |-> hk.pollRef.user, txId |-> hk.pollRef.txId, patient |-> hk.pollRef.patient]
  /\ UNCHANGED <<dbVars, writeVars, vp, hk, runs, rc, api, sideVars>>

\* The callback's consent read resolves: on "granted", stopPolling() and run(),
\* whether or not the component is still mounted.
PollReply ==
  /\ pf.pc = "fetch"
  /\ IF fetchConsentStatus(pf.patient, pf.user) = "granted"
       THEN /\ CanRun(pf.user)
            /\ hk' = SetState(RunHead(hk, pf.user, FALSE))
            /\ runs' = RunsAfterCall(pf.user, pf.txId)
       ELSE UNCHANGED <<hk, runs>>
  /\ pf' = IdleRc
  /\ UNCHANGED <<dbVars, writeVars, vp, rc, api, sideVars>>

\* ------------------------------------------------------------ specification
InitApp ==
  /\ predictions = <<>>
  /\ notes = <<>>
  /\ ledger = <<>>
  /\ anchored = <<>>
  /\ consents = [pd \in Patients \X Doctors |-> "none"]
  /\ apptStatus = [a \in ApptIds |-> "scheduled"]
  /\ notifications = [ut \in Users \X NotifTypes |-> 0]
  /\ clock = 1
  /\ wfP = [u \in PredWriters |-> IdleP]
  /\ tm = [d \in NoteWriters |-> [active |-> 0, note |-> "none", loads |-> {}]]
  /\ wfD = [c \in DraftCalls |-> IdleD]
  /\ rejected = NoReject
  /\ vp = Unmounted
  /\ hk = FreshHook
  /\ runs = [k \in 1..MaxRuns |-> IdleRun]
  /\ rc = IdleRc
  /\ pf = IdleRc
  /\ api = IdleApi
  /\ consentRows = <<>>
  /\ rpc = [c \in RpcCalls |-> IdleCall]
  /\ seen = NoSeen
Init == InitApp /\ canon = IdleCanon

\* nanoid(10): a token no entry and no other workflow holds (the first such,
\* tokens being interchangeable), or one that collides with an existing entry
\* or with the token of a workflow under way.
TxIdHeld(t) ==
  \/ TxIdTaken(t)
  \/ \E u \in PredWriters : wfP[u].txid = t
  \/ \E c \in DraftCalls : wfD[c].txid = t
FreshTxIds == {TxIdSeq[i] : i \in {j \in 1..Len(TxIdSeq) : ~TxIdHeld(TxIdSeq[j]) /\ \A h \in 1..(j - 1) : TxIdHeld(TxIdSeq[h])}}
InFlightTxIds == ({wfP[u].txid : u \in PredWriters} \cup {wfD[c].txid : c \in DraftCalls}) \ {"none"}
nanoid == FreshTxIds \cup {ledger[i].tx_id : i \in 1..Len(ledger)} \cup InFlightTxIds

\* stableStringify is applied to the two values.
Canon_Run ==
  /\ canon.pc = "input"
  /\ canon' = [canon EXCEPT !.pc = "done", !.outA = stableStringify(canon.a),
                            !.outB = stableStringify(canon.b)]
  /\ UNCHANGED <<dbVars, writeVars, verifyVars, api, consentRows, rpc, seen, rejected>>

\* ------------------------------------------------ direct use of the store
ForgedHash == sha256(JSONStringify(<<>>))

\* An authenticated client sends an insert into ledger_transactions through
\* the REST API with columns of its choosing.
RawInsert_Send(u, row) ==
  /\ api.pc \in {"idle", "done"}
  /\ LedgerRoom
  /\ api' = [pc |-> "sent", user |-> u, row |-> <<row>>, error |-> "none"]
  /\ UNCHANGED <<dbVars, writeVars, verifyVars, sideVars>>

\* The insert is executed (created_at defaults to now()) and answered.
RawInsert_Reply ==
  /\ api.pc = "sent"
  /\ LET row == [api.row[1] EXCEPT !.created_at = clock]
         err == InsertError(api.user, row)
     IN /\ api' = [api EXCEPT !.pc = "done", !.row = NoRow, !.error = err]
        /\ IF err = "ok"
             THEN /\ ledger' = LedgerInsert(ledger, row)
                  /\ anchored' = Append(anchored, NoRow)
                  /\ clock' = clock + 1
             ELSE UNCHANGED <<ledger, anchored, clock>>
  /\ UNCHANGED <<predictions, notes, consents, apptStatus, notifications, writeVars, verifyVars, sideVars>>

\* Rows a client may send: any payload references, its own or another
\* author, a fresh or a used tx_id.
RawRows(u) ==
  { LedgerRow(t, ForgedHash, NoHash, 0, p, n, 0, "p1", by) :
      t \in nanoid, p \in 0..Len(predictions), n \in 0..Len(notes), by \in {u, "p2"} }

\* The record a ledger row anchors is as its writer hashed it.
Untouched(i) ==
  /\ anchored[i] # NoRow
  /\ ledger[i].prediction_id # 0 =>
       /\ ledger[i].prediction_id \in 1..Len(predictions)
       /\ PredRead(predictions[ledger[i].prediction_id]) = anchored[i][1]
  /\ ledger[i].note_id # 0 =>
       /\ ledger[i].note_id \in 1..Len(notes)
       /\ NoteRead(ledger[i].note_id, notes[ledger[i].note_id]) = anchored[i][1]

\* Values a stored column is changed to outside the application (service
\* role, SQL console): one column of an anchored record that is still as
\* anchored.
OtherForm == << <<"age_years", 61>>, <<"bmi", 24>> >>
PredictionChanges(row) ==
  { [row EXCEPT !.input = Jsonb(OtherForm)],
    [row EXCEPT !.risk_percentage = row.risk_percentage + 1],
    [row EXCEPT !.risk_category = "High"],
    [row EXCEPT !.health_score = row.health_score - 1],
    [row EXCEPT !.created_at = row.created_at + 1] } \ {row}
NoteChanges(row) ==
  ( { [row EXCEPT !.diagnosis = d] : d \in {None, Some(""), Some("cold")} }
    \cup { [row EXCEPT !.recommendations = r] : r \in {None, Some(""), Some("rest")} }
    \cup { [row EXCEPT !.finalized_at = t] : t \in {0, row.finalized_at + 1} }
    \cup { [row EXCEPT !.appointment_id = a] : a \in {a2 \in ApptIds : NoteOfAppt(a2) = 0} }
    \cup { [row EXCEPT !.doctor_id = d] : d \in Doctors }
    \cup { [row EXCEPT !.patient_id = q] : q \in Patients } ) \ {row}

TamperPrediction(i, row) ==
  /\ ledger[i].prediction_id # 0
  /\ Untouched(i)
  /\ row \in PredictionChanges(predictions[ledger[i].prediction_id])
  /\ predictions' = [predictions EXCEPT ![ledger[i].prediction_id] = row]
  /\ UNCHANGED <<notes, ledger, consents, apptStatus, notifications, clock, anchored, writeVars, verifyVars, api, sideVars>>

TamperNote(i, row) ==
  /\ ledger[i].note_id # 0
  /\ Untouched(i)
  /\ row \in NoteChanges(notes[ledger[i].note_id])
  /\ notes' = [notes EXCEPT ![ledger[i].note_id] = row]
  /\ UNCHANGED <<predictions, ledger, consents, apptStatus, notifications, clock, anchored, writeVars, verifyVars, api, sideVars>>

NoWriteInFlight ==
  /\ \A u \in PredWriters : wfP[u].pc = "idle"
  /\ \A c \in DraftCalls : wfD[c].pc = "idle"
  /\ \A d \in NoteWriters : tm[d].loads = {}
PageClosed == ~vp.mounted /\ Quiescent

\* Inputs the forms accept.
GoodForms == {form \in Forms : schemaOk(form)}
GoodDiags == {diag \in DiagInputs : noteSchemaOk(diag, "")}
WriteStartOf(appts, slots, forms, diags) ==
  \/ \E u \in PredWriters, form \in forms : SP_Start(u, form)
  \/ \E d \in NoteWriters, a \in appts : SelectAppointment(d, a)
  \/ \E c \in NoteWriters \X slots, f \in BOOLEAN, diag \in diags, rec \in RecInputs :
       SD_Start(c, f, diag, rec)
WriteStart(appts, slots) == WriteStartOf(appts, slots, GoodForms, GoodDiags)

WriteContinue ==
  \/ \E u \in PredWriters :
       \/ SP_InsertPred(u)
       \/ \E txid \in nanoid : SP_ReadLast(u, txid)
       \/ SP_InsertTx(u)
       \/ SP_Notify(u)
  \/ \E d \in NoteWriters, a \in ApptIds : NoteLoaded(d, a)
  \/ \E c \in DraftCalls :
       \/ SD_Upsert(c)
       \/ \E txid \in nanoid : SD_ReadLast(c, txid)
       \/ SD_InsertTx(c)
       \/ SD_Complete(c)

ConsentStep(pairs) ==
  \E pd \in pairs :
    \/ PatientRequest(pd[1], pd[2])
    \/ \E st \in {"granted", "revoked"} : PatientSetStatus(pd[1], pd[2], st)

\* Transaction ids a verification link may carry: those of the ledger and one that is not.
LinkTxIds == {ledger[i].tx_id : i \in 1..Len(ledger)} \cup {"tx_none"}

MountStep(users, loadings) ==
  \E u \in users, t \in LinkTxIds, loading \in loadings : Mount(u, t, loading)

RunStep(k) ==
  \/ R_FetchTx(k)
  \/ R_Label(k)
  \/ R_FetchPred(k)
  \/ R_FetchNote(k)
  \/ R_Hash(k)
  \/ R_FetchMeta(k)
  \/ R_FetchConsent(k)

\* The page once opened: replies arrive, the page is left.
OpenContinue ==
  \/ Unmount
  \/ \E k \in 1..MaxRuns : RunStep(k)

VerifyContinue ==
  \/ OpenContinue
  \/ Refresh
  \/ RC_Start
  \/ RC_Reply
  \/ PollTick
  \/ PollReply

RawInsertStep(users) ==
  \/ \E u \in users : \E row \in RawRows(u) : RawInsert_Send(u, row)
  \/ RawInsert_Reply

PredictionChangesOf(i) ==
  IF ledger[i].prediction_id \in 1..Len(predictions)
    THEN PredictionChanges(predictions[ledger[i].prediction_id]) ELSE {}
NoteChangesOf(i) ==
  IF ledger[i].note_id \in 1..Len(notes) THEN NoteChanges(notes[ledger[i].note_id]) ELSE {}
TamperStep ==
  \E i \in 1..Len(ledger) :
    \/ \E row \in PredictionChangesOf(i) : TamperPrediction(i, row)
    \/ \E row \in NoteChangesOf(i) : TamperNote(i, row)

\* All operations of the application.  A write workflow starts while no
\* verification page is open and a page is opened while no write workflow is
\* under way; consent changes interleave freely with both.
VerifyUsers == {"p1", "p2", "d1", NoUser}
ConsentPairs == {<<"p1", "d1">>}
Next ==
  \/ PageClosed /\ WriteStart({1}, {1})
  \/ WriteContinue
  \/ ConsentStep(ConsentPairs)
  \/ NoWriteInFlight /\ MountStep(VerifyUsers, BOOLEAN)
  \/ AuthLoaded
  \/ VerifyContinue

Spec == Init /\ [][Next]_vars

\* A doctor's verification page that stays open: what happens without the
\* doctor (replies to requests in flight, the interval timer) is delivered
\* eventually.
NextLive ==
  \/ PageClosed /\ WriteStart({1}, {1})
  \/ WriteContinue
  \/ ConsentStep(ConsentPairs)
  \/ NoWriteInFlight /\ MountStep({"d1"}, {FALSE})
  \/ \E k \in 1..MaxRuns : RunStep(k)
  \/ RC_Start
  \/ RC_Reply
  \/ PollTick
  \/ PollReply
SpecLive ==
  /\ Init
  /\ [][NextLive]_vars
  /\ \A k \in 1..MaxRuns : WF_vars(RunStep(k))
  /\ WF_vars(RC_Reply)
  /\ WF_vars(PollTick)
  /\ WF_vars(PollReply)

\* The write workflows one after another, consent changes between them.
NextSeq ==
  \/ NoWriteInFlight /\ WriteStart({1}, {1})
  \/ WriteContinue
  \/ NoWriteInFlight /\ ConsentStep(ConsentPairs)
SpecSeq == Init /\ [][NextSeq]_vars

\* The write workflows of the patient and of the doctor overlapping freely,
\* consent changes at any time.
NextWrites ==
  \/ WriteStart({1}, {1})
  \/ WriteContinue
  \/ ConsentStep(ConsentPairs)
SpecWrites == Init /\ [][NextWrites]_vars

\* The two forms submitted with every input, valid or not.
NextForms == WriteStartOf({1}, {1}, Forms, DiagInputs) \/ WriteContinue
SpecForms == Init /\ [][NextForms]_vars

\* The write workflows and direct inserts, freely interleaved.
NextStore == WriteStart({1}, {1}) \/ WriteContinue \/ RawInsertStep({"d1"})
SpecStore == Init /\ [][NextStore]_vars

\* The write workflows, the consent page, and a verification page that is
\* opened and left to itself (no "Refresh", no "Request patient consent").
NextOpen ==
  \/ PageClosed /\ WriteStart({1}, {1})
  \/ WriteContinue
  \/ ConsentStep(ConsentPairs)
  \/ NoWriteInFlight /\ MountStep(VerifyUsers, BOOLEAN)
  \/ AuthLoaded
  \/ OpenContinue
SpecOpen == Init /\ [][NextOpen]_vars

\* The same, and one anchored record changed behind the application's back.
\* Consent changes and the change of the record happen while no page is
\* open and no workflow is under way.
AllUntouched == \A j \in 1..Len(ledger) : Untouched(j)
NextTamper ==
  \/ PageClosed /\ WriteStart({1}, {1})
  \/ WriteContinue
  \/ PageClosed /\ NoWriteInFlight /\ ConsentStep(ConsentPairs)
  \/ PageClosed /\ NoWriteInFlight /\ AllUntouched /\ TamperStep
  \/ NoWriteInFlight /\ MountStep({"p1", "d1"}, {FALSE})
  \/ OpenContinue
SpecTamper == Init /\ [][NextTamper]_vars

\* Doctors, a patient and an anonymous client calling request_patient_consent
\* at once, next to the patient's consent page.
RpcStep(callers, patients) ==
  \/ \E c \in RpcCalls, uid \in callers, p \in patients : Rpc_Select(c, uid, p)
  \/ \E c \in RpcCalls : Rpc_Insert(c)
RpcCallers == {"d1", "d2", "p1", NoUser}
NextConsent ==
  \/ RpcStep(RpcCallers, {"p1"})
  \/ ConsentStep(ConsentPairs)
SpecConsent == Init /\ [][NextConsent]_vars

\* A verification page opened again and again on a store that changes only
\* while the page is closed; the requester notes each outcome.
RerunUsers == {"p1", "p2", "d1", NoUser}
NextRerun ==
  \/ PageClosed /\ WriteStart({1}, {1})
  \/ WriteContinue
  \/ PageClosed /\ NoWriteInFlight /\ ConsentStep(ConsentPairs)
  \/ NoWriteInFlight /\ MountStep(RerunUsers, BOOLEAN)
  \/ AuthLoaded
  \/ OpenContinue
  \/ Refresh
  \/ NoteAndLeave
  \/ NoteAndRefresh
SpecRerun == Init /\ [][NextRerun]_vars

\* stableStringify on its own: two values, one a reordering of the other.
InitCanon == InitApp /\ canon \in CanonInputs(Nums)
NextCanon == Canon_Run
SpecCanon == InitCanon /\ [][NextCanon]_vars

\* stableStringify applied to a value that may hold non-finite numbers.
InitNonFinite ==
  InitApp /\ canon \in {[pc |-> "input", a |-> t, b |-> t, outA |-> <<>>, outB |-> <<>>] :
                           t \in Roots(SomeNonFinite)}
SpecNonFinite == InitNonFinite /\ [][NextCanon]_vars

\* The telemedicine page of a doctor with two appointments: a click on
\* either button, and a second click on "Finalize & anchor" while the first
\* call is still running.
NextNotes ==
  \/ \E d \in NoteWriters, a \in ApptIds : SelectAppointment(d, a)
  \/ \E d \in NoteWriters, a \in ApptIds : NoteLoaded(d, a)
  \/ \E d \in NoteWriters, f \in BOOLEAN, diag \in {"", "flu"} :
       (f => clock < MaxClock) /\ SD_Start(<<d, 1>>, f, diag, "")
  \/ \E d \in NoteWriters : clock < MaxClock /\ SD_Start(<<d, 2>>, TRUE, "flu", "")
  \/ \E c \in DraftCalls :
       \/ SD_Upsert(c)
       \/ \E txid \in nanoid : SD_ReadLast(c, txid)
       \/ SD_InsertTx(c)
       \/ SD_Complete(c)
SpecNotes == Init /\ [][NextNotes]_vars

\* ------------------------------------------------------------- properties
\* The page shows the outcome of verify: mounted, session known, no run under way.
RunsIdle == \A k \in 1..MaxRuns : runs[k].pc = "idle"
VerifyDone == vp.mounted /\ ~vp.authLoading /\ RunsIdle
\* The page verifies ledger row i.
Verifies(i) == VerifyDone /\ vp.txId = ledger[i].tx_id

\* C1: for every prediction saved through savePrediction whose row is never
\* changed afterwards, verify on the entry's tx_id by the owning patient
\* ends with status valid.
C1_PredictionRoundTrip ==
  \A i \in 1..Len(ledger) :
    (Verifies(i) /\ ledger[i].prediction_id # 0 /\ Untouched(i) /\ vp.user = ledger[i].patient_id)
      => hk.status = "valid"

\* C2: for every note finalized through saveDraft(true) whose row is never
\* changed afterwards, verify on the entry's tx_id ends with status valid
\* for the patient, and for the authoring doctor whenever the run was
\* allowed to read the entry (it did not end in a consent status).
C2_NoteRoundTrip ==
  \A i \in 1..Len(ledger) :
    (Verifies(i) /\ ledger[i].note_id # 0 /\ Untouched(i)) =>
      /\ vp.user = ledger[i].patient_id => hk.status = "valid"
      /\ vp.user = ledger[i].created_by =>
           hk.status \in {"valid", "consent_required", "consent_pending"}
C2_Witness ==
  \E i \in 1..Len(ledger) :
    /\ Verifies(i) /\ ledger[i].note_id # 0 /\ Untouched(i)
    /\ vp.user = ledger[i].created_by
    /\ hk.status = "valid"

\* What verify computes from the record as its writer hashed it.
AnchoredVerdict(i) ==
  LET tx == TxRead(ledger[i])
  IN IF anchored[i] = NoRow THEN "invalid"
     ELSE IF tx.prediction_id # 0
       THEN VerdictOf(sha256(buildPredictionPayload(tx, anchored[i][1])), tx)
       ELSE VerdictOf(sha256(buildNotePayload(anchored[i][1], tx.created_at)), tx)
\* The requester may read ledger row i and the record it references.
MayRead(uid, i) ==
  /\ CanReadLedger(uid, ledger[i])
  /\ ledger[i].prediction_id # 0 =>
       /\ ledger[i].prediction_id \in 1..Len(predictions)
       /\ CanReadPrediction(uid, predictions[ledger[i].prediction_id])
  /\ ledger[i].note_id # 0 =>
       /\ ledger[i].note_id \in 1..Len(notes)
       /\ CanReadNote(uid, notes[ledger[i].note_id])
\* The recorded content of a record as read, a null diagnosis or
\* recommendations counting as the empty text.
ContentOf(i, rec) ==
  IF ledger[i].prediction_id # 0
    THEN <<rec.input, rec.risk_percentage, rec.risk_category, rec.health_score, rec.created_at>>
    ELSE <<rec.appointment_id, rec.doctor_id, rec.patient_id,
           OrEmpty(rec.diagnosis), OrEmpty(rec.recommendations), rec.finalized_at>>
CurrentRecord(i) ==
  IF ledger[i].prediction_id # 0
    THEN PredRead(predictions[ledger[i].prediction_id])
    ELSE NoteRead(ledger[i].note_id, notes[ledger[i].note_id])
ContentChanged(i) == anchored[i] # NoRow /\ ContentOf(i, CurrentRecord(i)) # ContentOf(i, anchored[i][1])
\* Verify of row i has ended for a requester who could read the entry and the record.
VerdictShown(i) ==
  /\ Verifies(i)
  /\ AnchoredVerdict(i) = "valid"
  /\ MayRead(vp.user, i)
  /\ hk.status \notin {"consent_required", "consent_pending"}

\* C3 as stated: for an entry on which verify yields valid, once a recorded
\* content field of the owning record holds a different stored value, the
\* next verify by an authorized requester ends with status invalid.
C3_AnyStoredChangeDetected ==
  \A i \in 1..Len(ledger) : (VerdictShown(i) /\ ~Untouched(i)) => hk.status = "invalid"

\* C3 amended: for an entry on which verify yields valid, once a recorded
\* content field of the owning record differs from the anchored one, a null
\* diagnosis or recommendations counting as the empty text, the next verify
\* by an authorized requester ends with status invalid.
C3_ContentChangeDetected ==
  \A i \in 1..Len(ledger) : (VerdictShown(i) /\ ContentChanged(i)) => hk.status = "invalid"
C3_Witness ==
  \E i \in 1..Len(ledger) : VerdictShown(i) /\ ContentChanged(i) /\ hk.status = "invalid"

\* C4: every ledger row has exactly one of prediction_id and note_id
\* non-null, and an insert with both null or both set is rejected and
\* leaves the ledger unchanged.
C4_ExactlyOnePayload ==
  [][ /\ \A i \in 1..Len(ledger') : (ledger'[i].prediction_id = 0) # (ledger'[i].note_id = 0)
      /\ (api.pc = "sent" /\ api'.pc = "done"
            /\ ((api.row[1].prediction_id = 0) = (api.row[1].note_id = 0)))
           => (ledger' = ledger /\ api'.error # "ok") ]_vars
C4_Witness ==
  /\ api.pc = "done"
  /\ api.error = "23514"
  /\ Len(ledger) > 0

\* C5: when the write workflows for one patient run one after another, the
\* first entry appended for the patient has prev_hash null and every later
\* entry has prev_hash equal to the payload_hash of the entry appended
\* immediately before it for that patient.
EarlierOf(i) == {j \in 1..(i - 1) : ledger[j].patient_id = ledger[i].patient_id}
PreviousOf(i) == CHOOSE j \in EarlierOf(i) : \A h \in EarlierOf(i) : h <= j
C5_ChainLinkage ==
  \A i \in 1..Len(ledger) :
    ledger[i].prev_hash = IF EarlierOf(i) = {} THEN NoHash ELSE ledger[PreviousOf(i)].payload_hash

\* C6: no two ledger entries share a tx_id, an entry's tx_id never changes,
\* and an insert whose tx_id already exists fails and leaves the ledger
\* unchanged.
Used(txid) == \E i \in 1..Len(ledger) : ledger[i].tx_id = txid
C6_TxIdUnique ==
  [][ /\ \A i, j \in 1..Len(ledger') : i # j => ledger'[i].tx_id # ledger'[j].tx_id
      /\ \A i \in 1..Len(ledger) : i <= Len(ledger') /\ ledger'[i].tx_id = ledger[i].tx_id
      /\ (api.pc = "sent" /\ api'.pc = "done" /\ Used(api.row[1].tx_id))
           => (ledger' = ledger /\ api'.error # "ok")
      /\ \A u \in PredWriters :
           (wfP[u].pc = "insTx" /\ wfP'[u].pc # "insTx" /\ Used(wfP[u].txid))
             => (ledger' = ledger /\ wfP'[u].pc = "idle")
      /\ \A c \in DraftCalls :
           (wfD[c].pc = "insTx" /\ wfD'[c].pc # "insTx" /\ Used(wfD[c].txid))
             => (ledger' = ledger /\ wfD'[c].pc = "idle") ]_vars
C6_Witness ==
  /\ api.pc = "done"
  /\ api.error = "23505"
  /\ Len(ledger) = MaxLedger - 1

\* C7: once a ledger entry has been inserted, no application operation
\* changes any of its columns or removes it.
C7_AppendOnly ==
  [][ \A i \in 1..Len(ledger) : i <= Len(ledger') /\ ledger'[i] = ledger[i] ]_vars
C7_Witness ==
  /\ Len(ledger) = 2
  /\ apptStatus[1] = "completed"
  /\ ConsentStatus("p1", "d1") = "revoked"
  /\ vp.mounted /\ hk.status = "valid"

\* C8: for an authenticated requester who is not a doctor and not the
\* subject, verify on the tx_id of an existing entry and on a tx_id that
\* does not exist both end with status no_access and tx, meta, pred and
\* note null.
Observable == <<hk.status, hk.tx, hk.meta, hk.pred, hk.note>>
C8_AuthorizationCollapse ==
  (VerifyDone /\ vp.user \in Patients
     /\ \A i \in 1..Len(ledger) : ledger[i].tx_id = vp.txId => ledger[i].patient_id # vp.user)
    => Observable = <<"no_access", None, None, None, None>>
C8_Witness ==
  /\ VerifyDone /\ vp.user \in Patients
  /\ \E i \in 1..Len(ledger) : ledger[i].tx_id = vp.txId /\ ledger[i].patient_id # vp.user
  /\ hk.status = "no_access"

\* A run of verify receives the answer of its consent read; the row it read.
ConsentReply(k) == runs[k].pc = "fetchConsent" /\ runs'[k].pc = "idle" /\ vp.mounted /\ vp'.mounted
RowRead(k) == consents[<<runs[k].m[1].patient_id, runs[k].user>>]
RequestReply == rc.pc = "rpc" /\ rc'.pc = "idle"

C10_UnlockAfterGrant ==
  (vp.mounted /\ hk.status = "consent_pending" /\ Granted("p1", vp.user))
    ~> (hk.status \in {"valid", "invalid"} \/ ~Granted("p1", vp.user))

\* Rows of the pair (patient, doctor) in a consent table, by id.
RowsOfPair(rows, p, d) == {i \in 1..Len(rows) : rows[i].patient_id = p /\ rows[i].doctor_id = d}
\* Call c starts executing in this step.
CallStarts(c) == rpc[c].pc \in {"idle", "done"} /\ rpc'[c].pc # "idle" /\ rpc'[c] # rpc[c]

\* C11: after any number of request_patient_consent calls by the same
\* doctor for the same patient, sequential or concurrent, there is at most
\* one doctor_patient_consents row for the pair, and a call made while a
\* pending or granted row exists returns that row's id without inserting.
C11_IdempotentConsentRequest ==
  [][ /\ \A p \in Patients, d \in Doctors : Cardinality(RowsOfPair(consentRows', p, d)) <= 1
      /\ \A c \in RpcCalls :
           ( /\ CallStarts(c)
             /\ rpc'[c].uid \in Doctors
             /\ RowsOfPair(consentRows, rpc'[c].patient, rpc'[c].uid) # {}
             /\ consents[<<rpc'[c].patient, rpc'[c].uid>>] \in {"pending", "granted"} )
           => /\ rpc'[c].pc = "done"
              /\ rpc'[c].error = "none"
              /\ rpc'[c].result \in RowsOfPair(consentRows, rpc'[c].patient, rpc'[c].uid)
              /\ consentRows' = consentRows
              /\ consents' = consents
              /\ notifications' = notifications ]_vars
C11_Witness ==
  \E c1, c2 \in RpcCalls :
    /\ c1 # c2
    /\ rpc[c1].pc = "done" /\ rpc[c1].error = "none" /\ rpc[c1].result # 0
    /\ rpc[c2].pc = "done" /\ rpc[c2].error = "23505"
    /\ rpc[c1].uid = rpc[c2].uid /\ rpc[c1].patient = rpc[c2].patient
    /\ Cardinality(RowsOfPair(consentRows, rpc[c1].patient, rpc[c1].uid)) = 1

\* The tables as a requester finds them.
Store == <<ledger, predictions, notes, consents, notifications>>
\* The page shows the outcome of a run for the requester, tx_id and store noted before.
ShownAgain ==
  /\ VerifyDone
  /\ seen.status # "none"
  /\ seen.user = vp.user /\ seen.txId = vp.txId
  /\ seen.store = Store

\* C12: a run of verify (without requestConsent) changes no row of the
\* ledger, predictions, notes, consents or notifications, and running it
\* again for the same tx_id and requester against an unchanged store ends
\* with the same status.
C12_VerifyReadOnlyRepeatable ==
  [][ /\ (runs' # runs \/ vp' # vp) => Store' = Store
      /\ ShownAgain' => hk'.status = seen'.status ]_vars
C12_Witness ==
  /\ ShownAgain
  /\ seen.user = "d1"
  /\ \E i \in 1..Len(ledger) : ledger[i].tx_id = vp.txId /\ ledger[i].note_id # 0
  /\ hk.status = "valid"

\* Two values hold the same keys and values at every level, array elements
\* in the same order.
KeySet(pairs) == {pairs[i][1] : i \in 1..Len(pairs)}
RECURSIVE SameMapping(_, _)
SameMapping(a, b) ==
  IF a[1] # b[1] THEN FALSE
  ELSE IF a[1] = "num" THEN a[2] = b[2]
  ELSE IF a[1] = "arr"
    THEN Len(a[2]) = Len(b[2]) /\ \A i \in 1..Len(a[2]) : SameMapping(a[2][i], b[2][i])
  ELSE /\ KeySet(a[2]) = KeySet(b[2])
       /\ \A k \in KeySet(a[2]) : SameMapping(ValueOf(a[2], k), ValueOf(b[2], k))

\* C13: for two trees that contain the same keys and values at every level
\* and differ only in the order in which mapping keys were inserted,
\* stableStringify returns the same string; two trees that differ in the
\* order of the elements of a sequence give different strings.
C13_CanonicalizationDeterminism ==
  canon.pc = "done" =>
    IF SameMapping(canon.a, canon.b) THEN canon.outA = canon.outB ELSE canon.outA # canon.outB
C13_Witness ==
  /\ canon.pc = "done"
  /\ SameMapping(canon.a, canon.b)
  /\ canon.a[1] = "obj" /\ Len(canon.a[2]) = 2
  /\ canon.a[2][1][1] = "b" /\ canon.b[2][1][1] = "a"
  /\ canon.a[2][1][2][1] = "obj" /\ Len(canon.a[2][1][2][2]) = 2
  /\ canon.a[2][1][2][2][1][1] # canon.b[2][2][2][2][1][1]
  /\ canon.outA = canon.outB

\* The requester is the patient, or a doctor the patient's consent row grants.
Authorized(u, p) == u = p \/ (u \in Doctors /\ consents[<<p, u>>] = "granted")
EntriesOf(txid) == {i \in 1..Len(ledger) : ledger[i].tx_id = txid}
\* Run k ends in this step, on a page that stays open.
RunEnds(k) == runs[k].pc # "idle" /\ runs'[k].pc = "idle" /\ vp.mounted /\ vp'.mounted

\* C14: verify ends with status valid or invalid only if, at the time the
\* run read the entry, the requester was the entry's patient or a doctor
\* whose consent row for that patient was granted; a run that reads after
\* the patient revoked does not end with valid or invalid.
C14_FullReadAuthorization ==
  [][ /\ \A k \in 1..MaxRuns :
           (runs[k].tx = None /\ runs'[k].tx # None) =>
             /\ runs[k].pc = "fetchTx"
             /\ \E i \in EntriesOf(runs[k].txId) : Authorized(runs[k].user, ledger[i].patient_id)
      /\ \A k \in 1..MaxRuns :
           (RunEnds(k) /\ hk'.status \in {"valid", "invalid"}) =>
             \/ runs[k].tx # None
             \/ /\ runs[k].pc = "fetchTx"
                /\ \E i \in EntriesOf(runs[k].txId) : Authorized(runs[k].user, ledger[i].patient_id)
      /\ (hk'.status \in {"valid", "invalid"} /\ hk'.status # hk.status)
           => \E k \in 1..MaxRuns : RunEnds(k) ]_vars
C14_Witness ==
  /\ Len(ledger) = 2
  /\ ledger[2].created_by = "d1" /\ ledger[2].prev_hash # NoHash
  /\ consents[<<"p1", "d1">>] = "revoked"
  /\ VerifyDone /\ vp.user = "d1" /\ vp.txId = ledger[2].tx_id
  /\ hk.status = "consent_required"

\* C15: get_ledger_tx_meta_for_doctor returns a row only to a caller holding
\* the doctor role and never returns payload_hash or prev_hash; while the
\* status is consent_required or consent_pending, tx, pred and note are
\* null.
HashColumns == {"payload_hash", "prev_hash"}
C15_MetadataOnlyRead ==
  /\ \A k \in 1..MaxRuns :
       runs[k].m # None =>
         (has_role(runs[k].user, "doctor") /\ DOMAIN runs[k].m[1] \cap HashColumns = {})
  /\ hk.meta # None => DOMAIN hk.meta[1] \cap HashColumns = {}
  /\ hk.status \in {"consent_required", "consent_pending"} =>
       (hk.tx = None /\ hk.pred = None /\ hk.note = None)

\* The record run k is about to read is missing or hidden from its requester.
PayloadHidden(k) ==
  LET u == runs[k].user
      tx == runs[k].tx[1]
  IN IF runs[k].pc = "fetchPred"
       THEN \/ tx.prediction_id \notin 1..Len(predictions)
            \/ LET p == predictions[tx.prediction_id].patient_id
               IN ~(u = p \/ (u \in Doctors /\ consents[<<p, u>>] = "granted"))
       ELSE \/ tx.note_id \notin 1..Len(notes)
            \/ LET n == notes[tx.note_id]
               IN ~(u = n.doctor_id \/ (u = n.patient_id /\ n.is_final))
\* Run k receives the answer of its read of the record.
PayloadReply(k) ==
  /\ runs[k].pc \in {"fetchPred", "fetchNote"}
  /\ runs'[k].pc # runs[k].pc
  /\ vp.mounted /\ vp'.mounted

\* C16: when the ledger entry is readable but the prediction or note it
\* references cannot be read, verify ends with status no_access, never
\* with valid or invalid.
C16_MissingPayloadNoAccess ==
  [][ \A k \in 1..MaxRuns :
        (PayloadReply(k) /\ PayloadHidden(k)) =>
          (runs'[k].pc = "idle" /\ hk'.status = "no_access") ]_vars
C16_Witness ==
  /\ VerifyDone
  /\ hk.status = "no_access"
  /\ hk.tx # None /\ hk.pred = None /\ hk.note = None

\* C17: when verify runs with no session user and authentication has
\* finished loading, it ends with status auth_required, issues no read of
\* the ledger, payload or consent tables, and leaves tx, pred, note and
\* meta null.
NoRequest == (\A k \in 1..MaxRuns : runs[k].pc = "idle") /\ rc.pc = "idle" /\ pf.pc = "idle"
C17_Unauthenticated ==
  (vp.mounted /\ ~vp.authLoading /\ vp.user = NoUser) =>
    /\ hk.status = "auth_required"
    /\ NoRequest
    /\ hk.tx = None /\ hk.pred = None /\ hk.note = None /\ hk.meta = None
C17_Witness ==
  /\ vp.mounted /\ ~vp.authLoading /\ vp.user = NoUser
  /\ hk.status = "auth_required"
  /\ \E i \in 1..Len(ledger) : ledger[i].tx_id = vp.txId

\* Note i is final and a ledger entry references it.
AnchoredNote(i) == notes[i].is_final /\ \E j \in 1..Len(ledger) : ledger[j].note_id = i
NoteContent(n) == <<n.diagnosis, n.recommendations, n.is_final, n.finalized_at>>

\* C18: once a note has been finalized and its ledger entry appended, no
\* sequence of doctor actions on the telemedicine page changes that note's
\* diagnosis, recommendations, is_final or finalized_at.
C18_AnchoredNotesFrozen ==
  [][ \A i \in 1..Len(notes) :
        AnchoredNote(i) => NoteContent(notes'[i]) = NoteContent(notes[i]) ]_vars

\* C19: in every reachable state, including repeated or overlapping
\* invocations of savePrediction and saveDraft(true), no two ledger entries
\* reference the same prediction_id and no two reference the same note_id.
C19_OneEntryPerPayload ==
  \A i, j \in 1..Len(ledger) :
    i # j =>
      /\ ledger[i].prediction_id # 0 => ledger[i].prediction_id # ledger[j].prediction_id
      /\ ledger[i].note_id # 0 => ledger[i].note_id # ledger[j].note_id

\* C20: in every reachable state, including states reached by concurrent
\* writes for the same patient, at most one entry of a patient has prev_hash
\* null, that entry is the patient's first, and every non-null prev_hash
\* equals the payload_hash of an entry of the same patient with an earlier
\* created_at.
SamePatient(i, j) == ledger[i].patient_id = ledger[j].patient_id
Before(j, i) == SamePatient(i, j) /\ ledger[j].created_at < ledger[i].created_at
C20_PrevHashInvariant ==
  \A i \in 1..Len(ledger) :
    IF ledger[i].prev_hash = NoHash
      THEN \A j \in 1..Len(ledger) :
             /\ ~Before(j, i)
             /\ (j # i /\ SamePatient(i, j)) => ledger[j].prev_hash # NoHash
      ELSE \E j \in 1..Len(ledger) :
             Before(j, i) /\ ledger[j].payload_hash = ledger[i].prev_hash

\* The same mapping with its keys in every order.
KeyOrders(obj) == {[k \in 1..Len(obj) |-> obj[f[k]]] : f \in Perms(Len(obj))}

\* C21: the string hashed when an entry is written and the string hashed
\* when it is verified are the canonical serialization of the snapshot: for
\* every ledger entry of a prediction, neither digest depends on the key
\* order of the prediction's input mapping.
C21_CanonicalHashBothPaths ==
  \A i \in 1..Len(ledger) :
    (ledger[i].prediction_id \in 1..Len(predictions)) =>
      LET row == predictions[ledger[i].prediction_id]
          pred == PredRead(row)
          tx == TxRead(ledger[i])
          riskInfo == [risk |-> row.risk_percentage, category |-> row.risk_category]
      IN \A q \in KeyOrders(row.input) :
           /\ sha256(buildPredictionPayload(tx, [pred EXCEPT !.input = q]))
                = sha256(buildPredictionPayload(tx, pred))
           /\ sha256(WritePredictionPayload(q, riskInfo, row.health_score, row.created_at, row.patient_id))
                = sha256(WritePredictionPayload(row.input, riskInfo, row.health_score, row.created_at, row.patient_id))

\* C22: whenever the verifier status is consent_pending, a poll timer is
\* active (pollRef is set), whether the status was set by requestConsent or
\* by a run of verify that found a pending consent row.
C22_PendingImpliesPolling ==
  (vp.mounted /\ hk.status = "consent_pending") => hk.pollRef.on

\* A consent-status read of the poll callback, or a run of verify, starts.
PollReadStarts == pf.pc = "idle" /\ pf'.pc = "fetch"
RunStarts == \E k \in 1..MaxRuns : runs[k].pc = "idle" /\ runs'[k].pc # "idle"

\* C23: after the verification page is unmounted no poll timer is active and
\* no further consent-status read or verify re-run is started, including
\* when the requestConsent RPC or a poll's consent-status read is still in
\* flight at the unmount.
C23_PollingStopsOnTeardown ==
  [][ /\ ~vp'.mounted => ~hk'.pollRef.on
      /\ (~vp.mounted /\ ~vp'.mounted) => (~PollReadStarts /\ ~RunStarts) ]_vars

\* C24: when the ledger insert of a write workflow fails with a uniqueness
\* violation on tx_id, the workflow generates a fresh tx_id and retries the
\* insert instead of ending.
C24_RetryOnIdCollision ==
  [][ /\ \A u \in PredWriters :
           (wfP[u].pc = "insTx" /\ TxIdTaken(wfP[u].txid) /\ wfP'[u] # wfP[u])
             => (wfP'[u].pc = "insTx" /\ ~TxIdTaken(wfP'[u].txid))
      /\ \A c \in DraftCalls :
           (wfD[c].pc = "insTx" /\ TxIdTaken(wfD[c].txid) /\ wfD'[c] # wfD[c])
             => (wfD'[c].pc = "insTx" /\ ~TxIdTaken(wfD'[c].txid)) ]_vars

\* The value holds NaN, Infinity or -Infinity at some depth.
RECURSIVE HasNonFinite(_)
HasNonFinite(t) ==
  IF t[1] = "nonfinite" THEN TRUE
  ELSE IF t[1] = "num" THEN FALSE
  ELSE IF t[1] = "arr" THEN \E i \in 1..Len(t[2]) : HasNonFinite(t[2][i])
  ELSE \E i \in 1..Len(t[2]) : HasNonFinite(t[2][i][2])
\* What is returned when the call has thrown: no text.
Thrown == <<"throw">>

\* C25: canonicalizing a payload tree that contains NaN, Infinity or
\* -Infinity at any depth raises an error and returns no string; no
\* serialization is produced in which the value is replaced by another token.
C25_NonFiniteFailFast ==
  (canon.pc = "done" /\ HasNonFinite(canon.a)) => canon.outA = Thrown

\* The input is outside what the form's schema allows.
FormFails(form) == form[1][2] < 1 \/ form[1][2] > 120 \/ form[2][2] < 10 \/ form[2][2] > 60
TextFails(text) == text = Some("long")

\* C26: if form validation fails in savePrediction or in saveDraft, the
\* operation ends without computing a hash and without inserting or changing
\* any prediction, note, ledger, appointment or notification row: the step
\* in which the validation throws changes neither the store nor a workflow,
\* and no workflow is under way with an input the schema rejects.
C26_ValidationBeforeWrite ==
  [][ /\ rejected' # rejected => (dbVars' = dbVars /\ wfP' = wfP /\ wfD' = wfD)
      /\ \A u \in PredWriters : wfP'[u].pc # "idle" => ~FormFails(wfP'[u].input)
      /\ \A c \in DraftCalls :
           wfD'[c].pc # "idle" => (~TextFails(wfD'[c].diag) /\ ~TextFails(wfD'[c].rec)) ]_vars
C26_Witness ==
  /\ rejected.op = "saveDraft"
  /\ Len(predictions) > 0
  /\ Len(ledger) > 0

\* C27: whenever no write workflow is in progress, every predictions row and
\* every appointment_notes row with is_final = true is referenced by a
\* ledger entry, including after a workflow whose ledger insert failed.
C27_NoUnanchoredFinalRecords ==
  NoWriteInFlight =>
    /\ \A i \in 1..Len(predictions) : \E j \in 1..Len(ledger) : ledger[j].prediction_id = i
    /\ \A i \in 1..Len(notes) :
         notes[i].is_final => \E j \in 1..Len(ledger) : ledger[j].note_id = i

\* What one run of verify leaves in the hook when it ends with the status.
OneRunOutcome ==
  CASE hk.status \in {"valid", "invalid"} ->
         hk.tx # None /\ hk.meta = None /\ (hk.pred = None) # (hk.note = None)
    [] hk.status \in {"consent_required", "consent_pending"} ->
         hk.tx = None /\ hk.pred = None /\ hk.note = None /\ hk.meta # None
    [] hk.status = "auth_required" ->
         hk.tx = None /\ hk.pred = None /\ hk.note = None /\ hk.meta = None
    [] OTHER -> hk.pred = None /\ hk.note = None /\ hk.meta = None

\* C28: when several runs of verify overlap, then once all of them have
\* completed the hook's status, tx, pred, note and meta are those one run
\* (the one started last) has produced, and at no moment is the status valid
\* or invalid while tx is null.
C28_LatestRunWins ==
  /\ (VerifyDone /\ rc.pc = "idle" /\ pf.pc = "idle") => OneRunOutcome
  /\ (vp.mounted /\ hk.status \in {"valid", "invalid"}) => hk.tx # None

\* C29: whenever requestConsent has set the status to consent_pending, a
\* doctor_patient_consents row with status pending or granted exists for the
\* (doctor, patient) pair, including when the pair's existing row has status
\* revoked or the RPC reports an error.
C29_PendingBackedByRequest ==
  [][ (rc.pc = "rpc" /\ rc'.pc = "idle" /\ hk'.status = "consent_pending" /\ vp'.mounted)
        => /\ \E i \in 1..Len(consentRows') :
                consentRows'[i].patient_id = rc.patient /\ consentRows'[i].doctor_id = rc.user
           /\ consents'[<<rc.patient, rc.user>>] \in {"pending", "granted"} ]_vars

\* Number of the notifications the function has written for each patient.
RequestNotifs == [p \in Patients |-> notifications[<<p, "consent_request">>]]

\* C30: request_patient_consent inserts a notification for the patient
\* exactly when it inserts a new pending consent row; a call that reuses an
\* existing pending or granted row, or that fails, adds no notification.
C30_NotifyOncePerRequest ==
  [][ \A c \in RpcCalls :
        rpc'[c] # rpc[c] =>
          /\ \A p \in Patients :
               RequestNotifs'[p] =
                 RequestNotifs[p] + (IF Len(consentRows') > Len(consentRows) /\ p = rpc[c].patient
                                       THEN 1 ELSE 0)
          /\ Len(consentRows') > Len(consentRows) =>
               /\ rpc'[c].error = "none"
               /\ consents'[<<rpc[c].patient, rpc[c].uid>>] = "pending"
          /\ (rpc'[c].pc = "done" /\ (rpc'[c].error # "none" \/ rpc[c].pc # "insert")) =>
               (consentRows' = consentRows /\ notifications' = notifications) ]_vars
C30_Witness ==
  /\ \E c \in RpcCalls : rpc[c].pc = "done" /\ rpc[c].error = "none" /\ rpc[c].result # 0
  /\ \E c \in RpcCalls : rpc[c].pc = "done" /\ rpc[c].error = "23505"
  /\ \E p \in Patients : RequestNotifs[p] = 1 /\ Len(consentRows) > 0

====
